---- MODULE Spec2Model ----
(***************************************************************************)
(* A model of the validation layer of the ETL repository:                  *)
(*   etl/advanced_validation.py  (schemas, DataValidator,                  *)
(*                                run_comprehensive_validation)            *)
(*   etl/data_validation.py      (validate_stock_data,                     *)
(*                                validate_company_data)                   *)
(*   etl/error_handling.py       (retry_on_failure)                        *)
(*   etl/pipeline_orchestration.py (ETLPipeline)                           *)
(*                                                                         *)
(* Tables are pandas DataFrames: a row count and a mapping from column     *)
(* name to a column, a column being its dtype and its cells.  A cell is    *)
(* <<>> (null: None / NaN / NaT) or <<v>>.                                  *)
(*                                                                         *)
(* Numbers are pairs <<hi, lo>> standing for hi * 10^6 + lo with           *)
(* 0 <= lo < 10^6, so that the bound 1e12 of trading_volume is a value of  *)
(* the model.  Strings that are checked for their form are run-length      *)
(* encoded: a sequence of [ch, n] runs, n >= 1, adjacent runs of different *)
(* characters.  Strings that are only compared are TLA+ strings.           *)
(* Timestamps are integers (days).                                         *)
(***************************************************************************)
EXTENDS Integers, Sequences, FiniteSets, TLC

VARIABLES
    vd_name,      \* validate_dataset: the dataset_name argument
    vd_df,        \* validate_dataset: the df argument
    vd_injected,  \* the field a single out-of-range value was written to, or "-"
    vd_pc,        \* "call" before validate_dataset ran, "done" after, "-" if unused
    vd_result,    \* the (passed, errors) pair validate_dataset returned
    datasets,     \* the collection given to validate_cross_table_constraints
                  \* or to run_comprehensive_validation
    pc,           \* where the call on `datasets` stands
    ct_result,    \* what validate_cross_table_constraints did: the pair it
                  \* returned, or the exception it let through
    todo,         \* run_comprehensive_validation: the keys its loop has yet to visit
    validation_report,  \* run_comprehensive_validation: the report being built
    dq_fn,        \* data_validation: the function called, or "-"
    dq_df,        \* data_validation: its df argument
    dq_pc,        \* "call" before the function ran, "done" after, "-" if unused
    dq_result,    \* the dict the function returned, or the exception it raised
    rt_max_retries,     \* retry_on_failure: its max_retries argument
    rt_delay,           \* retry_on_failure: its delay argument
    rt_func,            \* the wrapped function: what its k-th invocation does
    rt_pc,              \* where the call of the wrapper stands, or "-"
    rt_attempt,         \* wrapper: the loop variable attempt
    rt_calls,           \* the number of invocations of the wrapped function
    rt_last_exception,  \* wrapper: last_exception
    rt_outcome,         \* what the wrapper returned or raised
    pl_env,                 \* ETLPipeline: what the world outside does when called
    pl_pc,                  \* where run_full_pipeline stands, or "-"
    pl_trace,               \* the steps run_full_pipeline has invoked, in order
    pl_wrds_connection,     \* self.wrds_connection
    pl_raw_data,            \* run_full_pipeline: raw_data
    pl_transformed_data,    \* run_full_pipeline: transformed_data
    pl_validation_passed,   \* run_full_pipeline: validation_passed
    pl_validation_results,  \* self.validation_results
    pl_load_success,        \* run_full_pipeline: load_success
    pl_files,               \* the datasets load_data has saved
    pl_returned             \* the value run_full_pipeline returns

\* The variables of advanced_validation.py, of data_validation.py, of
\* error_handling.py and of pipeline_orchestration.py.
validatorVars == <<vd_name, vd_df, vd_injected, vd_pc, vd_result, datasets, pc,
                   ct_result, todo, validation_report>>
qualityVars == <<dq_fn, dq_df, dq_pc, dq_result>>
retryVars == <<rt_max_retries, rt_delay, rt_func, rt_pc, rt_attempt, rt_calls,
               rt_last_exception, rt_outcome>>

pipelineVars == <<pl_env, pl_pc, pl_trace, pl_wrds_connection, pl_raw_data,
                  pl_transformed_data, pl_validation_passed, pl_validation_results,
                  pl_load_success, pl_files, pl_returned>>

\* Everything outside advanced_validation.py.
otherVars == <<qualityVars, retryVars, pipelineVars>>

vars == <<validatorVars, otherVars>>

\* ------------------------------------------------------------------ bounds

\* Largest number of rows of a table given to the validator.
MaxRows == 2

\* Largest number of rows of a table given to data_validation.py.
MaxQualityRows == 3

\* Largest max_retries given to retry_on_failure.
MaxRetries == 3

\* Largest number of rows of the stock table the pipeline extracts.
MaxPipelineRows == 2

\* ------------------------------------------------------------------ values

\* The number n, |n| < 10^6, as a <<hi, lo>> pair.
N(n) == IF n >= 0 THEN <<0, n>> ELSE <<-1, 1000000 + n>>

\* 1e12 and 1e12 - 1.
N1e12 == <<1000000, 0>>
N1e12m1 == <<999999, 999999>>

NumLt(a, b) == a[1] < b[1] \/ (a[1] = b[1] /\ a[2] < b[2])
NumLe(a, b) == a = b \/ NumLt(a, b)

IsNull(cell) == Len(cell) = 0
NotNull(cell) == Len(cell) = 1

RECURSIVE StrLen(_)
StrLen(s) == IF s = <<>> THEN 0 ELSE Head(s).n + StrLen(Tail(s))

UpperCase == {"A", "B", "K", "Q", "F"}

\* re.match(r'^[A-Z]{1,10}$', s)
StrMatchesTicker(s) ==
    /\ StrLen(s) >= 1
    /\ StrLen(s) <= 10
    /\ \A i \in 1..Len(s) : s[i].ch \in UpperCase

\* re.search(r'[<>]', s)
StrContainsAngle(s) == \E i \in 1..Len(s) : s[i].ch \in {"<", ">"}

\* ------------------------------------------------------------------ pandera

\* pandera.Column(dtype, nullable=..., checks=[...]), under the name it has
\* as a key of the DataFrameSchema.
Column(name, dtype, nullable, checks) ==
    [name |-> name, dtype |-> dtype, nullable |-> nullable, checks |-> checks]

Check_str_matches == [check |-> "str_matches"]
Check_lambda_len_le(k) == [check |-> "lambda_len_le", max_value |-> k]
Check_str_length(lo, hi) == [check |-> "str_length", min_value |-> lo, max_value |-> hi]
Check_lambda_no_angle == [check |-> "lambda_no_angle"]
Check_between(lo, hi) == [check |-> "between", min_value |-> lo, max_value |-> hi]
Check_greater_than(lo) == [check |-> "greater_than", min_value |-> lo]
Check_less_than(hi) == [check |-> "less_than", max_value |-> hi]
Check_greater_than_or_equal_to(lo) ==
    [check |-> "greater_than_or_equal_to", min_value |-> lo]
Check_isin(allowed) == [check |-> "isin", allowed |-> allowed]

companies_schema == <<
    Column("ticker", "str", FALSE, <<Check_str_matches, Check_lambda_len_le(10)>>),
    Column("company_name", "str", FALSE,
           <<Check_str_length(1, 255), Check_lambda_no_angle>>),
    Column("sector", "str", TRUE, <<Check_str_length(0, 100)>>),
    Column("governance_score", "float", TRUE, <<Check_between(N(0), N(10))>>) >>

stock_prices_schema == <<
    Column("company_id", "int", FALSE, <<Check_greater_than(N(0))>>),
    Column("date", "Timestamp", FALSE, <<>>),
    Column("closing_price", "float", FALSE,
           <<Check_greater_than(N(0)), Check_less_than(N(10000))>>),
    Column("trading_volume", "int", FALSE,
           <<Check_greater_than_or_equal_to(N(0)), Check_less_than(N1e12)>>),
    Column("returns", "float", TRUE, <<Check_between(N(-1), N(1))>>) >>

sec_filings_schema == <<
    Column("company_id", "int", FALSE, <<Check_greater_than(N(0))>>),
    Column("filing_date", "Timestamp", FALSE, <<>>),
    Column("filing_type", "str", FALSE,
           <<Check_isin({"8-K", "10-K", "10-Q", "20-F"})>>),
    Column("cybersecurity_mention", "bool", FALSE, <<>>),
    Column("disclosure_speed", "str", TRUE,
           <<Check_isin({"Immediate", "Delayed", "Unknown"})>>) >>

cybersecurity_incidents_schema == <<
    Column("company_id", "int", FALSE, <<Check_greater_than(N(0))>>),
    Column("breach_date", "Timestamp", FALSE, <<>>),
    Column("disclosure_date", "Timestamp", TRUE, <<>>),
    Column("incident_type", "str", TRUE, <<>>),
    Column("records_affected", "int", TRUE,
           <<Check_greater_than_or_equal_to(N(0))>>) >>

\* DataValidator.schemas
schemas ==
    [n \in {"companies", "stock_prices", "sec_filings", "cybersecurity_incidents"} |->
        CASE n = "companies" -> companies_schema
          [] n = "stock_prices" -> stock_prices_schema
          [] n = "sec_filings" -> sec_filings_schema
          [] n = "cybersecurity_incidents" -> cybersecurity_incidents_schema]

\* The dtype a pandas column must have to pass the dtype check of a Column
\* declared with the Python type t.
ExpectedDtype(t) ==
    CASE t = "int" -> "int64"
      [] t = "float" -> "float64"
      [] t = "str" -> "object"
      [] t = "bool" -> "bool"
      [] t = "Timestamp" -> "datetime64[ns]"

\* The dtype pandas gives a column holding values of kind t: an integer or a
\* boolean column that holds a null is no longer int64 / bool.
InferDtype(t, cells) ==
    LET hasNull == \E i \in 1..Len(cells) : IsNull(cells[i])
    IN CASE Len(cells) = 0 -> "object"
         [] t = "int" -> IF hasNull THEN "float64" ELSE "int64"
         [] t = "bool" -> IF hasNull THEN "object" ELSE "bool"
         [] OTHER -> ExpectedDtype(t)

\* CheckOk with the open ends of greater_than and less_than taken as closed.
CheckOk_closed_ends(chk, v) ==
    CASE chk.check = "str_matches" -> StrMatchesTicker(v)
      [] chk.check = "lambda_len_le" -> StrLen(v) <= chk.max_value
      [] chk.check = "str_length" ->
            StrLen(v) >= chk.min_value /\ StrLen(v) <= chk.max_value
      [] chk.check = "lambda_no_angle" -> ~StrContainsAngle(v)
      [] chk.check = "between" -> NumLe(chk.min_value, v) /\ NumLe(v, chk.max_value)
      [] chk.check = "greater_than" -> NumLe(chk.min_value, v)
      [] chk.check = "less_than" -> NumLe(v, chk.max_value)
      [] chk.check = "greater_than_or_equal_to" -> NumLe(chk.min_value, v)
      [] chk.check = "isin" -> v \in chk.allowed

\* One check of pandera on one non-null value.
CheckOk(chk, v) ==
    CASE chk.check = "str_matches" -> StrMatchesTicker(v)
      [] chk.check = "lambda_len_le" -> StrLen(v) <= chk.max_value
      [] chk.check = "str_length" ->
            StrLen(v) >= chk.min_value /\ StrLen(v) <= chk.max_value
      [] chk.check = "lambda_no_angle" -> ~StrContainsAngle(v)
      [] chk.check = "between" -> NumLe(chk.min_value, v) /\ NumLe(v, chk.max_value)
      [] chk.check = "greater_than" -> NumLt(chk.min_value, v)
      [] chk.check = "less_than" -> NumLt(v, chk.max_value)
      [] chk.check = "greater_than_or_equal_to" -> NumLe(chk.min_value, v)
      [] chk.check = "isin" -> v \in chk.allowed

\* A check fails on a column when some non-null value fails it (nulls are
\* dropped before a check runs).
CheckFails(chk, series) ==
    \E i \in 1..Len(series.vals) :
        NotNull(series.vals[i]) /\ ~CheckOk(chk, series.vals[i][1])

SchemaError(col, reason) == [column |-> col.name, reason |-> reason]

\* The errors schema.validate(df, lazy=True) collects for one declared column.
ColumnErrors(col, df) ==
    IF col.name \notin DOMAIN df.cols
    THEN <<SchemaError(col, "column_in_dataframe")>>
    ELSE LET series == df.cols[col.name]
             failing == SelectSeq(col.checks, LAMBDA chk : CheckFails(chk, series))
         IN (IF ~col.nullable /\ \E i \in 1..Len(series.vals) : IsNull(series.vals[i])
             THEN <<SchemaError(col, "not_nullable")>> ELSE <<>>)
            \o (IF series.dtype # ExpectedDtype(col.dtype)
                THEN <<SchemaError(col, "dtype")>> ELSE <<>>)
            \o [i \in 1..Len(failing) |-> SchemaError(col, failing[i].check)]

RECURSIVE SchemaErrors(_, _)
SchemaErrors(schema, df) ==
    IF schema = <<>> THEN <<>>
    ELSE ColumnErrors(Head(schema), df) \o SchemaErrors(Tail(schema), df)

\* validate_dataset with a dataset that has no schema reported as a failure.
validate_dataset_unknown_fails(df, dataset_name) ==
    IF dataset_name \notin DOMAIN schemas
    THEN [passed |-> FALSE, errors |-> <<[column |-> "-", reason |-> "no_schema"]>>]
    ELSE LET errors == SchemaErrors(schemas[dataset_name], df)
         IN IF errors = <<>>
            THEN [passed |-> TRUE, errors |-> <<>>]
            ELSE [passed |-> FALSE, errors |-> errors]

\* DataValidator.validate_dataset
validate_dataset(df, dataset_name) ==
    IF dataset_name \notin DOMAIN schemas
    THEN [passed |-> TRUE, errors |-> <<>>]
    ELSE LET errors == SchemaErrors(schemas[dataset_name], df)
         IN IF errors = <<>>
            THEN [passed |-> TRUE, errors |-> <<>>]
            ELSE [passed |-> FALSE, errors |-> errors]

\* ------------------------------------------------------------------ tables

Fields(schema) == {schema[i].name : i \in 1..Len(schema)}
ColumnOf(schema, f) == schema[CHOOSE i \in 1..Len(schema) : schema[i].name = f]

\* A pandas column made of the given cells, all of kind t.
Series(t, cells) == [dtype |-> InferDtype(t, cells), vals |-> cells]

\* The DataFrame with the given rows (each a mapping from column name to
\* cell), restricted to the columns `present`; types maps a column to the
\* kind of its values.
DataFrame(types, rows, present) ==
    [nrows |-> Len(rows),
     cols |-> [c \in present |->
                  Series(types[c], [i \in 1..Len(rows) |-> rows[i][c]])]]

SchemaTypes(schema) == [f \in Fields(schema) |-> ColumnOf(schema, f).dtype]

\* len(df) and df.empty
len(df) == df.nrows
empty(df) == df.nrows = 0 \/ DOMAIN df.cols = {}

\* A run-length encoded string of n copies of ch.
Rep(ch, n) == IF n = 0 THEN <<>> ELSE <<[ch |-> ch, n |-> n]>>

\* A row of each dataset that satisfies every declared check.
BaseRow(n) ==
    CASE n = "companies" ->
            [ticker |-> <<Rep("A", 4)>>, company_name |-> <<Rep("b", 5)>>,
             sector |-> <<Rep("b", 4)>>, governance_score |-> <<N(5)>>]
      [] n = "stock_prices" ->
            [company_id |-> <<N(1)>>, date |-> <<1>>, closing_price |-> <<N(100)>>,
             trading_volume |-> <<N(1000)>>, returns |-> <<N(0)>>]
      [] n = "sec_filings" ->
            [company_id |-> <<N(1)>>, filing_date |-> <<1>>, filing_type |-> <<"8-K">>,
             cybersecurity_mention |-> <<TRUE>>, disclosure_speed |-> <<"Immediate">>]
      [] n = "cybersecurity_incidents" ->
            [company_id |-> <<N(1)>>, breach_date |-> <<1>>, disclosure_date |-> <<2>>,
             incident_type |-> <<"ransomware">>, records_affected |-> <<N(5)>>]

\* The other cells a field takes in the tables given to the validator: the
\* ends of each declared range, the values next to them, and null.
Samples(n) ==
    CASE n = "companies" ->
            [ticker |-> {<<>>, <<Rep("A", 10)>>, <<Rep("A", 11)>>, <<Rep("b", 3)>>,
                         <<Rep("A", 0)>>},
             company_name |-> {<<>>, <<Rep("b", 255)>>, <<Rep("b", 256)>>,
                               <<Rep("b", 0)>>, <<Rep("b", 1) \o Rep("<", 1)>>},
             sector |-> {<<>>, <<Rep("b", 100)>>, <<Rep("b", 101)>>, <<Rep("b", 0)>>},
             governance_score |-> {<<>>, <<N(-1)>>, <<N(0)>>, <<N(10)>>, <<N(11)>>}]
      [] n = "stock_prices" ->
            [company_id |-> {<<>>, <<N(0)>>, <<N(-1)>>},
             date |-> {<<>>},
             closing_price |-> {<<>>, <<N(-1)>>, <<N(0)>>, <<N(1)>>, <<N(9999)>>,
                                <<N(10000)>>},
             trading_volume |-> {<<>>, <<N(-1)>>, <<N(0)>>, <<N1e12m1>>, <<N1e12>>},
             returns |-> {<<>>, <<N(-2)>>, <<N(-1)>>, <<N(1)>>, <<N(2)>>}]
      [] n = "sec_filings" ->
            [company_id |-> {<<>>, <<N(0)>>, <<N(-1)>>},
             filing_date |-> {<<>>},
             filing_type |-> {<<>>, <<"10-K">>, <<"10-Q">>, <<"20-F">>, <<"S-1">>},
             cybersecurity_mention |-> {<<>>, <<FALSE>>},
             disclosure_speed |-> {<<>>, <<"Delayed">>, <<"Unknown">>, <<"Late">>}]
      [] n = "cybersecurity_incidents" ->
            [company_id |-> {<<>>, <<N(0)>>, <<N(-1)>>},
             breach_date |-> {<<>>},
             disclosure_date |-> {<<>>, <<1>>},
             incident_type |-> {<<>>, <<"phishing">>},
             records_affected |-> {<<>>, <<N(-1)>>, <<N(0)>>}]

\* The base row with at most one field changed to another sample.
VariantRows(n) ==
    {BaseRow(n)} \cup
    UNION {{[BaseRow(n) EXCEPT ![f] = c] : c \in Samples(n)[f]} :
              f \in Fields(schemas[n])}

\* The tables given to validate_dataset under the name n: up to MaxRows
\* variant rows with every declared column, or base rows with one declared
\* column missing.
InputTables(n) ==
    LET schema == schemas[n]
        base(k) == [i \in 1..k |-> BaseRow(n)]
    IN {DataFrame(SchemaTypes(schema), rows, Fields(schema)) :
            rows \in UNION {[1..k -> VariantRows(n)] : k \in 1..MaxRows}}
       \cup {DataFrame(SchemaTypes(schema), base(k), Fields(schema) \ {f}) :
               k \in 1..MaxRows, f \in Fields(schema)}

\* The dataset names of validate_dataset's callers: the four that have a
\* schema and one that has none.
Registered == DOMAIN schemas
Unregistered == {"disclosure_analysis"}

\* ------------------------------------------------------------------ cross-table checks

\* Python's None, as a dataset or as the whole collection.
None == [None |-> TRUE]
IsNone(x) == "None" \in DOMAIN x

\* The outcome of a block of statements: it ran to its end with the errors
\* collected so far, or it raised an exception.
Ok(errors) == [raised |-> FALSE, type |-> "", text |-> "", errors |-> errors]
Raise(type, text) == [raised |-> TRUE, type |-> type, text |-> text, errors |-> <<>>]

\* What evaluating df[col] raises: nothing (""), a TypeError on None, or a
\* KeyError when the table has no such column.
SubscriptRaises(df, col) ==
    IF IsNone(df) THEN "TypeError"
    ELSE IF col \notin DOMAIN df.cols THEN "KeyError"
    ELSE ""

SubscriptError(df, col) ==
    IF IsNone(df) THEN Raise("TypeError", "'NoneType' object is not subscriptable")
    ELSE Raise("KeyError", "'" \o col \o "'")

\* set(df[col]); a null is equal to nothing, itself included
ValueSet(df, col) ==
    {df.cols[col].vals[i] : i \in 1..df.nrows}

\* Lines 108-119: referential integrity of stock_prices against companies.
ReferentialIntegrityCheck(ds, errors) ==
    IF IsNone(ds) THEN Raise("TypeError", "argument of type 'NoneType' is not iterable")
    ELSE IF ~("companies" \in DOMAIN ds /\ "stock_prices" \in DOMAIN ds) THEN Ok(errors)
    ELSE LET companies_df == ds["companies"]
             stock_df == ds["stock_prices"]
         IN IF SubscriptRaises(companies_df, "company_id") # ""
            THEN SubscriptError(companies_df, "company_id")
            ELSE IF SubscriptRaises(stock_df, "company_id") # ""
            THEN SubscriptError(stock_df, "company_id")
            ELSE LET valid_company_ids == ValueSet(companies_df, "company_id")
                     stock_company_ids == ValueSet(stock_df, "company_id")
                     invalid_ids == {c \in stock_company_ids :
                                        IsNull(c) \/ c \notin valid_company_ids}
                 IN IF invalid_ids # {}
                    THEN Ok(Append(errors, [kind |-> "invalid_company_ids",
                                            ids |-> invalid_ids]))
                    ELSE Ok(errors)

\* Lines 121-132: disclosure must not precede breach.  A comparison with a
\* null timestamp is false.
TemporalConsistencyCheck(ds, errors) ==
    IF "cybersecurity_incidents" \notin DOMAIN ds THEN Ok(errors)
    ELSE LET incidents_df == ds["cybersecurity_incidents"]
         IN IF SubscriptRaises(incidents_df, "disclosure_date") # ""
            THEN SubscriptError(incidents_df, "disclosure_date")
            ELSE IF SubscriptRaises(incidents_df, "breach_date") # ""
            THEN SubscriptError(incidents_df, "breach_date")
            ELSE LET disclosure == incidents_df.cols["disclosure_date"].vals
                     breach == incidents_df.cols["breach_date"].vals
                     invalid_dates ==
                        {i \in 1..incidents_df.nrows :
                            /\ NotNull(disclosure[i])
                            /\ NotNull(breach[i])
                            /\ disclosure[i][1] < breach[i][1]}
                 IN IF Cardinality(invalid_dates) > 0
                    THEN Ok(Append(errors, [kind |-> "disclosure_before_breach",
                                            count |-> Cardinality(invalid_dates)]))
                    ELSE Ok(errors)

\* The body of the try statement, lines 108-134: the first statement that
\* raises ends it.
TryBody(ds) ==
    LET r == ReferentialIntegrityCheck(ds, <<>>)
    IN IF r.raised THEN r ELSE TemporalConsistencyCheck(ds, r.errors)

Returned(passed, errors) == [propagated |-> FALSE, passed |-> passed, errors |-> errors]
Propagated(type) == [propagated |-> TRUE, passed |-> FALSE, errors |-> <<type>>]
ExceptionText(r) == [kind |-> "exception", text |-> r.text]

\* validate_cross_table_constraints with `except KeyError` for `except Exception`.
validate_cross_table_constraints_except_KeyError(ds) ==
    LET r == TryBody(ds)
    IN IF r.raised
       THEN IF r.type = "KeyError" THEN Returned(FALSE, <<ExceptionText(r)>>)
            ELSE Propagated(r.type)
       ELSE Returned(Len(r.errors) = 0, r.errors)

\* DataValidator.validate_cross_table_constraints
validate_cross_table_constraints(ds) ==
    LET r == TryBody(ds)
    IN IF r.raised
       THEN Returned(FALSE, <<ExceptionText(r)>>)
       ELSE Returned(Len(r.errors) = 0, r.errors)

NoCall == [propagated |-> FALSE, passed |-> FALSE, errors |-> <<>>]

\* ------------------------------------------------------------------ report

\* The number of rows that repeat an earlier row in every column.
Duplicated(df) ==
    Cardinality({i \in 1..df.nrows :
        \E j \in 1..(i - 1) :
            \A c \in DOMAIN df.cols : df.cols[c].vals[i] = df.cols[c].vals[j]})

\* DataValidator.generate_data_profile, without the memory estimate and
\* the floating-point statistics of the numeric columns.
generate_data_profile(df, dataset_name) ==
    [dataset |-> dataset_name,
     record_count |-> len(df),
     column_count |-> Cardinality(DOMAIN df.cols),
     null_counts |-> [c \in DOMAIN df.cols |->
                        Cardinality({i \in 1..df.nrows : IsNull(df.cols[c].vals[i])})],
     duplicate_rows |-> Duplicated(df)]

EmptyDict == [k \in {} |-> <<>>]

\* The report as run_comprehensive_validation creates it, lines 167-173,
\* without its timestamp.
NewReport ==
    [overall_status |-> "PASSED",
     dataset_results |-> EmptyDict,
     cross_table_results |-> EmptyDict,
     data_profiles |-> EmptyDict]

NoReport == [overall_status |-> "-"]

\* ------------------------------------------------------------------ validate_dataset

NoResult == [passed |-> FALSE, errors |-> <<"not called">>]

\* Every declared column is present, a null stands only in a nullable
\* column, and every other value passes every check declared for its column.
SatisfiesDeclaredChecks(df, n) ==
    \A k \in 1..Len(schemas[n]) :
        LET col == schemas[n][k]
        IN /\ col.name \in DOMAIN df.cols
           /\ \A i \in 1..df.nrows :
                LET cell == df.cols[col.name].vals[i]
                IN IF IsNull(cell) THEN col.nullable
                   ELSE \A c \in 1..Len(col.checks) : CheckOk(col.checks[c], cell[1])

\* Values outside the range declared for each checked numeric field,
\* the excluded ends of the open ranges among them.
OutOfRange(n) ==
    CASE n = "companies" -> [governance_score |-> {N(-1), N(11)}]
      [] n = "stock_prices" ->
            [company_id |-> {N(0), N(-1)},
             closing_price |-> {N(0), N(-1), N(10000)},
             trading_volume |-> {N(-1), N1e12},
             returns |-> {N(-2), N(2)}]
      [] n = "sec_filings" -> [company_id |-> {N(0), N(-1)}]
      [] n = "cybersecurity_incidents" ->
            [company_id |-> {N(0), N(-1)}, records_affected |-> {N(-1)}]

\* df.loc[i, f] = v
SetValue(df, t, f, i, v) ==
    [df EXCEPT !.cols[f] = Series(t, [df.cols[f].vals EXCEPT ![i] = <<v>>])]

\* The state of the parts of the program a specification does not exercise.
ValidatorUnused ==
    /\ vd_name = "-"
    /\ vd_df = None
    /\ vd_injected = "-"
    /\ vd_pc = "-"
    /\ vd_result = NoResult
    /\ datasets = None
    /\ pc = "-"
    /\ ct_result = NoCall
    /\ todo = {}
    /\ validation_report = NoReport

QualityUnused ==
    /\ dq_fn = "-"
    /\ dq_df = None
    /\ dq_pc = "-"
    /\ dq_result = None

RetryUnused ==
    /\ rt_max_retries = 0
    /\ rt_delay = 0
    /\ rt_func = <<>>
    /\ rt_pc = "-"
    /\ rt_attempt = 0
    /\ rt_calls = 0
    /\ rt_last_exception = None
    /\ rt_outcome = None

PipelineUnused ==
    /\ pl_env = None
    /\ pl_pc = "-"
    /\ pl_trace = <<>>
    /\ pl_wrds_connection = None
    /\ pl_raw_data = None
    /\ pl_transformed_data = None
    /\ pl_validation_passed = "-"
    /\ pl_validation_results = EmptyDict
    /\ pl_load_success = "-"
    /\ pl_files = {}
    /\ pl_returned = "-"

OthersUnused == QualityUnused /\ RetryUnused /\ PipelineUnused

InitSchema ==
    /\ OthersUnused
    /\ datasets = None
    /\ pc = "-"
    /\ ct_result = NoCall
    /\ todo = {}
    /\ validation_report = NoReport
    /\ vd_name \in Registered \cup Unregistered
    /\ vd_df \in IF vd_name \in Registered THEN InputTables(vd_name)
                 ELSE InputTables("companies") \cup InputTables("cybersecurity_incidents")
    /\ vd_injected = "-"
    /\ vd_pc = "call"
    /\ vd_result = NoResult

\* The caller writes one out-of-range value into a checked numeric field of
\* a table that satisfies its schema's checks.
InjectOutOfRange ==
    /\ vd_pc = "call"
    /\ vd_injected = "-"
    /\ vd_name \in Registered
    /\ SatisfiesDeclaredChecks(vd_df, vd_name)
    /\ \E f \in DOMAIN OutOfRange(vd_name), i \in 1..vd_df.nrows :
         \E v \in OutOfRange(vd_name)[f] :
            /\ vd_df' = SetValue(vd_df, ColumnOf(schemas[vd_name], f).dtype, f, i, v)
            /\ vd_injected' = f
    /\ UNCHANGED <<vd_name, vd_pc, vd_result, datasets, pc, ct_result, todo,
                   validation_report>>
    /\ UNCHANGED otherVars

CallValidateDataset ==
    /\ vd_pc = "call"
    /\ vd_result' = validate_dataset(vd_df, vd_name)
    /\ vd_pc' = "done"
    /\ UNCHANGED <<vd_name, vd_df, vd_injected, datasets, pc, ct_result, todo,
                   validation_report>>
    /\ UNCHANGED otherVars

NextSchema == InjectOutOfRange \/ CallValidateDataset

SpecSchema == InitSchema /\ [][NextSchema]_vars

\* C6: validate_dataset called with a dataset name that has no registered
\* schema returns passed = true and no errors, whatever the table holds.
C6_UnregisteredPasses ==
    (vd_pc = "done" /\ vd_name \notin Registered)
        => (vd_result.passed /\ vd_result.errors = <<>>)

\* A table that the companies schema rejects was validated under a name
\* without a schema.
C6_Witness ==
    /\ vd_pc = "done"
    /\ vd_name = "disclosure_analysis"
    /\ "ticker" \in DOMAIN vd_df.cols
    /\ ~SatisfiesDeclaredChecks(vd_df, "companies")

\* C9: a dataset of a registered schema in which every row satisfies all
\* declared per-field checks, nulls standing in nullable fields only, is
\* accepted with passed = true and no errors.
C9_ValidAccepted ==
    (vd_pc = "done" /\ vd_name \in Registered /\ vd_injected = "-"
        /\ SatisfiesDeclaredChecks(vd_df, vd_name))
        => (vd_result.passed /\ vd_result.errors = <<>>)

\* C10: after a single value of a checked numeric field of an otherwise
\* valid dataset was changed to a value outside its declared range,
\* validate_dataset returns passed = false with an error on that field.
C10_OutOfRangeRejected ==
    (vd_pc = "done" /\ vd_injected # "-")
        => /\ ~vd_result.passed
           /\ \E k \in 1..Len(vd_result.errors) :
                vd_result.errors[k].column = vd_injected

\* closing_price = 10000, the excluded upper end, was injected and validated.
C10_Witness ==
    /\ vd_pc = "done"
    /\ vd_injected = "closing_price"
    /\ \E i \in 1..vd_df.nrows : vd_df.cols["closing_price"].vals[i] = <<N(10000)>>
    /\ ~vd_result.passed

\* The declared fields of dataset n that the table df does not hold.
AbsentFields(df, n) == {f \in Fields(schemas[n]) : f \notin DOMAIN df.cols}

\* C11: for a dataset with a registered schema in which a declared field is
\* absent, validate_dataset records an error and returns passed = false if
\* the field is declared non-nullable, and records no error for the absence
\* of a field declared nullable.
C11_AbsentField ==
    (vd_pc = "done" /\ vd_name \in Registered)
        => \A f \in AbsentFields(vd_df, vd_name) :
              LET on_f == {k \in 1..Len(vd_result.errors) :
                              vd_result.errors[k].column = f}
              IN IF ColumnOf(schemas[vd_name], f).nullable
                 THEN on_f = {}
                 ELSE ~vd_result.passed /\ on_f # {}

\* ------------------------------------------------------------------ collections

\* pd.DataFrame(): no rows, no columns.
NoColumns == [nrows |-> 0, cols |-> [c \in {} |-> <<>>]]

\* A key that is not in the collection.
Absent == [Absent |-> TRUE]

\* The dict holding, for each key of f that is not Absent, its value.
Dict(f) == [k \in {k \in DOMAIN f : "Absent" \notin DOMAIN f[k]} |-> f[k]]

CompanyIds == {N(1), N(2)}
StockIds == {N(1), N(2), N(3)}

SeqsUpTo(S, lo, hi) == UNION {[1..k -> S] : k \in lo..hi}

\* A companies table, one row per id, that satisfies companies_schema but
\* for the governance score of its rows; with or without the company_id
\* column the cross-table check reads.
CompaniesTable(ids, withId, score) ==
    DataFrame(SchemaTypes(companies_schema) @@ [company_id |-> "int"],
              [i \in 1..Len(ids) |->
                  [BaseRow("companies") EXCEPT !.governance_score = <<score>>]
                  @@ [company_id |-> <<ids[i]>>]],
              Fields(companies_schema) \cup (IF withId THEN {"company_id"} ELSE {}))

\* A stock_prices table, one row per id, valid but for the closing price.
StockTable(ids, withId, price) ==
    DataFrame(SchemaTypes(stock_prices_schema),
              [i \in 1..Len(ids) |->
                  [BaseRow("stock_prices") EXCEPT !.company_id = <<ids[i]>>,
                                                  !.closing_price = <<price>>]],
              Fields(stock_prices_schema) \ (IF withId THEN {} ELSE {"company_id"}))

\* A cybersecurity_incidents table, one row per <<breach, disclosure>> pair
\* of cells, without the columns in `dropped`.
IncidentsTable(dates, dropped) ==
    DataFrame(SchemaTypes(cybersecurity_incidents_schema),
              [i \in 1..Len(dates) |->
                  [BaseRow("cybersecurity_incidents") EXCEPT
                      !.breach_date = dates[i][1], !.disclosure_date = dates[i][2]]],
              Fields(cybersecurity_incidents_schema) \ dropped)

\* The <<breach, disclosure>> pairs of the incidents rows: disclosure
\* before, on and after the breach, no disclosure, and no breach date.
DatePairs ==
    {<<<<2>>, <<1>>>>, <<<<1>>, <<1>>>>, <<<<1>>, <<2>>>>, <<<<2>>, <<>>>>, <<<<>>, <<1>>>>}

\* The values of each key in the collections given to
\* validate_cross_table_constraints.
CrossCompanies(rows) ==
    {Absent, None, NoColumns, CompaniesTable(<<N(1)>>, FALSE, N(5))}
    \cup {CompaniesTable(ids, TRUE, N(5)) : ids \in SeqsUpTo(CompanyIds, 0, rows)}
CrossStock(rows) ==
    {Absent, None, NoColumns, StockTable(<<N(1)>>, FALSE, N(100))}
    \cup {StockTable(ids, TRUE, N(100)) : ids \in SeqsUpTo(StockIds, 0, rows)}
CrossIncidents(rows) ==
    {Absent, None, NoColumns,
     IncidentsTable(<<<<<<2>>, <<1>>>>>>, {"disclosure_date"}),
     IncidentsTable(<<<<<<2>>, <<1>>>>>>, {"breach_date"})}
    \cup {IncidentsTable(dates, {}) : dates \in SeqsUpTo(DatePairs, 0, rows)}

\* The collections of tables of at most `rows` rows.
CrossCollections(rows) ==
    {None} \cup
    {Dict([companies |-> c, stock_prices |-> s, cybersecurity_incidents |-> i]) :
        c \in CrossCompanies(rows), s \in CrossStock(rows), i \in CrossIncidents(rows)}

InitCross ==
    /\ OthersUnused
    /\ datasets \in CrossCollections(MaxRows)
    /\ todo = {}
    /\ validation_report = NoReport
    /\ pc = "cross_call"
    /\ ct_result = NoCall
    /\ vd_name = "-"
    /\ vd_df = NoColumns
    /\ vd_injected = "-"
    /\ vd_pc = "-"
    /\ vd_result = NoResult

CallValidateCrossTable ==
    /\ pc = "cross_call"
    /\ ct_result' = validate_cross_table_constraints(datasets)
    /\ pc' = "cross_done"
    /\ UNCHANGED <<datasets, todo, validation_report,
                   vd_name, vd_df, vd_injected, vd_pc, vd_result>>
    /\ UNCHANGED otherVars

NextCross == CallValidateCrossTable

SpecCross == InitCross /\ [][NextCross]_vars

\* The key k of the collection holds a table that has the column c.
HasColumn(ds, k, c) ==
    /\ ~IsNone(ds)
    /\ k \in DOMAIN ds
    /\ ~IsNone(ds[k])
    /\ c \in DOMAIN ds[k].cols

\* The key k is present and reading column c of its value raises.
Malformed(ds, k, c) ==
    /\ ~IsNone(ds)
    /\ k \in DOMAIN ds
    /\ (IsNone(ds[k]) \/ c \notin DOMAIN ds[k].cols)

RefInputOk(ds) ==
    HasColumn(ds, "companies", "company_id") /\ HasColumn(ds, "stock_prices", "company_id")
RefInputBroken(ds) ==
    /\ ~IsNone(ds)
    /\ {"companies", "stock_prices"} \subseteq DOMAIN ds
    /\ (Malformed(ds, "companies", "company_id")
            \/ Malformed(ds, "stock_prices", "company_id"))
TemporalInputOk(ds) ==
    /\ HasColumn(ds, "cybersecurity_incidents", "disclosure_date")
    /\ HasColumn(ds, "cybersecurity_incidents", "breach_date")
TemporalInputBroken(ds) ==
    \/ Malformed(ds, "cybersecurity_incidents", "disclosure_date")
    \/ Malformed(ds, "cybersecurity_incidents", "breach_date")

\* The company ids of stock_prices that are no company id of companies.
Orphans(ds) ==
    {ds["stock_prices"].cols["company_id"].vals[i] : i \in 1..ds["stock_prices"].nrows}
    \ {ds["companies"].cols["company_id"].vals[i] : i \in 1..ds["companies"].nrows}

\* The number of incidents disclosed strictly before their breach.
EarlyDisclosures(ds) ==
    LET t == ds["cybersecurity_incidents"]
    IN Cardinality({i \in 1..t.nrows :
            /\ t.cols["disclosure_date"].vals[i] # <<>>
            /\ t.cols["breach_date"].vals[i] # <<>>
            /\ t.cols["disclosure_date"].vals[i][1] < t.cols["breach_date"].vals[i][1]})

ErrorsOfKind(errors, kind) == {k \in 1..Len(errors) : errors[k].kind = kind}

\* C2: given companies and stock_prices, if some company_id of stock_prices
\* is no company_id of companies the result is passed = false and the errors
\* hold exactly one referential-integrity message, naming every orphaned id;
\* if there is none, no referential-integrity message is produced.
C2_ReferentialIntegrity ==
    (pc = "cross_done" /\ RefInputOk(datasets)) =>
        LET ri == ErrorsOfKind(ct_result.errors, "invalid_company_ids")
        IN IF Orphans(datasets) # {}
           THEN /\ ~ct_result.passed
                /\ Cardinality(ri) = 1
                /\ \A k \in ri : ct_result.errors[k].ids = Orphans(datasets)
           ELSE ri = {}

\* C3: given cybersecurity_incidents, rows whose disclosure_date is non-null
\* and strictly earlier than breach_date make the check fail with one error
\* reporting their number; rows disclosed on the breach date or never are
\* not counted.
C3_TemporalOrdering ==
    (pc = "cross_done" /\ TemporalInputOk(datasets)) =>
        LET te == ErrorsOfKind(ct_result.errors, "disclosure_before_breach")
        IN IF EarlyDisclosures(datasets) > 0
           THEN /\ ~ct_result.passed
                /\ Cardinality(te) = 1
                /\ \A k \in te : ct_result.errors[k].count = EarlyDisclosures(datasets)
           ELSE te = {}

\* C4: validate_cross_table_constraints never lets an exception through; it
\* returns a (passed, errors) pair, and when reading its input fails the pair
\* is passed = false with exactly one error string.
C4_NeverPropagates ==
    pc = "cross_done" =>
        /\ ~ct_result.propagated
        /\ (IsNone(datasets) \/ RefInputBroken(datasets) \/ TemporalInputBroken(datasets))
            => /\ ~ct_result.passed
               /\ Len(ct_result.errors) = 1
               /\ ct_result.errors[1].kind = "exception"

\* The call returned although the collection holds None for companies, next
\* to a stock_prices table.
C4_Witness ==
    /\ pc = "cross_done"
    /\ ~IsNone(datasets)
    /\ {"companies", "stock_prices"} \subseteq DOMAIN datasets
    /\ IsNone(datasets["companies"])
    /\ ~ct_result.propagated
    /\ Len(ct_result.errors) = 1

\* C5: the two checks are independent: the temporal violation is reported
\* even when the referential-integrity check failed unexpectedly, and a
\* referential-integrity violation already found is still among the errors
\* when the temporal check fails unexpectedly afterwards.
C5_ChecksIndependent ==
    pc = "cross_done" =>
        /\ (RefInputBroken(datasets) /\ TemporalInputOk(datasets)
                /\ EarlyDisclosures(datasets) > 0)
            => ErrorsOfKind(ct_result.errors, "disclosure_before_breach") # {}
        /\ (RefInputOk(datasets) /\ Orphans(datasets) # {}
                /\ TemporalInputBroken(datasets))
            => ErrorsOfKind(ct_result.errors, "invalid_company_ids") # {}

\* ------------------------------------------------------------------ run_comprehensive_validation

\* Tables of k rows.
GoodCompanies(k) == CompaniesTable([i \in 1..k |-> N(i)], TRUE, N(5))
GoodStock(k) == StockTable([i \in 1..k |-> N(1)], TRUE, N(100))
GoodIncidents(k) == IncidentsTable([i \in 1..k |-> <<<<1>>, <<2>>>>], {})
SecFilings(filing_type) ==
    DataFrame(SchemaTypes(sec_filings_schema),
              <<[BaseRow("sec_filings") EXCEPT !.filing_type = <<filing_type>>]>>,
              Fields(sec_filings_schema))

\* The values of each key in the collections given to
\* run_comprehensive_validation: no key, None, tables without columns or
\* without rows, tables that pass and tables that fail their schema, tables
\* that break a cross-table constraint or the cross-table check itself.
ReportCompanies(rows) ==
    {Absent, None, NoColumns, GoodCompanies(0),
     CompaniesTable(<<N(1)>>, TRUE, N(11)),
     CompaniesTable(<<N(1)>>, FALSE, N(5))}
    \cup {GoodCompanies(k) : k \in 1..rows}
ReportStock(rows) ==
    {Absent, None, NoColumns, GoodStock(0),
     StockTable(<<N(3)>>, TRUE, N(100)),
     StockTable(<<N(1)>>, TRUE, N(0))}
    \cup {GoodStock(k) : k \in 1..rows}
ReportIncidents(rows) ==
    {Absent, None, NoColumns, GoodIncidents(0),
     IncidentsTable(<<<<<<2>>, <<1>>>>>>, {}),
     IncidentsTable(<<<<<<1>>, <<2>>>>>>, {"disclosure_date"})}
    \cup {GoodIncidents(k) : k \in 1..rows}
ReportSecFilings == {Absent, SecFilings("8-K"), SecFilings("S-1")}
ReportOther == {Absent, None, CompaniesTable(<<N(1)>>, FALSE, N(11))}

\* The collections of tables of at most `rows` rows.
ReportCollections(rows) ==
    {None} \cup
    {Dict([companies |-> c, stock_prices |-> s, cybersecurity_incidents |-> i,
           sec_filings |-> f, disclosure_analysis |-> o]) :
        c \in ReportCompanies(rows), s \in ReportStock(rows), i \in ReportIncidents(rows),
        f \in ReportSecFilings, o \in ReportOther}

Init ==
    /\ OthersUnused
    /\ datasets \in ReportCollections(MaxRows)
    /\ pc = "call"
    /\ todo = {}
    /\ validation_report = NoReport
    /\ ct_result = NoCall
    /\ vd_name = "-"
    /\ vd_df = NoColumns
    /\ vd_injected = "-"
    /\ vd_pc = "-"
    /\ vd_result = NoResult

\* Lines 166-176: the report is created and the loop over datasets.items()
\* begins; None has no items().
EnterValidation ==
    /\ pc = "call"
    /\ IF IsNone(datasets)
       THEN /\ pc' = "raised"
            /\ UNCHANGED <<todo, validation_report>>
       ELSE /\ pc' = "loop"
            /\ todo' = DOMAIN datasets
            /\ validation_report' = NewReport
    /\ UNCHANGED <<datasets, ct_result, vd_name, vd_df, vd_injected, vd_pc, vd_result>>
    /\ UNCHANGED otherVars

\* LoopBody without the `not df.empty` test.
LoopBody_no_empty_test(report, name, df) ==
    IF ~IsNone(df)
    THEN LET r == validate_dataset(df, name)
         IN [report EXCEPT
                !.dataset_results =
                    (name :> [passed |-> r.passed, errors |-> r.errors,
                              record_count |-> len(df)]) @@ @,
                !.overall_status = IF ~r.passed THEN "FAILED" ELSE @,
                !.data_profiles = (name :> generate_data_profile(df, name)) @@ @]
    ELSE report

\* LoopBody with the profile generated only for a dataset that passed.
LoopBody_profile_if_passed(report, name, df) ==
    IF ~IsNone(df) /\ ~empty(df)
    THEN LET r == validate_dataset(df, name)
         IN [report EXCEPT
                !.dataset_results =
                    (name :> [passed |-> r.passed, errors |-> r.errors,
                              record_count |-> len(df)]) @@ @,
                !.overall_status = IF ~r.passed THEN "FAILED" ELSE @,
                !.data_profiles =
                    IF r.passed THEN (name :> generate_data_profile(df, name)) @@ @
                    ELSE @]
    ELSE report

\* The report after one pass of the loop body, lines 177-189, for the key name.
LoopBody(report, name, df) ==
    IF ~IsNone(df) /\ ~empty(df)
    THEN LET r == validate_dataset(df, name)
         IN [report EXCEPT
                !.dataset_results =
                    (name :> [passed |-> r.passed, errors |-> r.errors,
                              record_count |-> len(df)]) @@ @,
                !.overall_status = IF ~r.passed THEN "FAILED" ELSE @,
                !.data_profiles = (name :> generate_data_profile(df, name)) @@ @]
    ELSE report

\* One iteration of `for name, df in datasets.items()`.
ValidateOneDataset ==
    /\ pc = "loop"
    /\ \E name \in todo :
        /\ validation_report' = LoopBody(validation_report, name, datasets[name])
        /\ todo' = todo \ {name}
    /\ UNCHANGED <<datasets, pc, ct_result, vd_name, vd_df, vd_injected, vd_pc, vd_result>>
    /\ UNCHANGED otherVars

\* CrossTableUpdate without lines 198-199.
CrossTableUpdate_status_unchanged(report, r) ==
    [report EXCEPT
        !.cross_table_results = [passed |-> r.passed, errors |-> r.errors]]

\* The report after lines 192-199, given what the cross-table call returned.
CrossTableUpdate(report, r) ==
    [report EXCEPT
        !.cross_table_results = [passed |-> r.passed, errors |-> r.errors],
        !.overall_status = IF ~r.passed THEN "FAILED" ELSE @]

\* Lines 191-201: the cross-table validation after the loop, and the return.
CrossTableValidation ==
    /\ pc = "loop"
    /\ todo = {}
    /\ ct_result' = validate_cross_table_constraints(datasets)
    /\ IF ct_result'.propagated
       THEN /\ pc' = "raised"
            /\ UNCHANGED validation_report
       ELSE /\ pc' = "returned"
            /\ validation_report' = CrossTableUpdate(validation_report, ct_result')
    /\ UNCHANGED <<datasets, todo, vd_name, vd_df, vd_injected, vd_pc, vd_result>>
    /\ UNCHANGED otherVars

Next == EnterValidation \/ ValidateOneDataset \/ CrossTableValidation

Spec == Init /\ [][Next]_vars

\* The keys of the collection that hold a table with rows and columns.
NonEmptyKeys(ds) == {k \in DOMAIN ds : ~IsNone(ds[k]) /\ ~empty(ds[k])}

\* C1: in the returned report overall_status is FAILED if and only if some
\* entry of dataset_results or cross_table_results has passed = false, and
\* PASSED otherwise.
C1_OverallStatus ==
    pc = "returned" =>
        LET failed ==
                \/ \E n \in DOMAIN validation_report.dataset_results :
                      ~validation_report.dataset_results[n].passed
                \/ ~validation_report.cross_table_results.passed
        IN validation_report.overall_status = IF failed THEN "FAILED" ELSE "PASSED"

\* A report in which every dataset passed and only the cross-table check failed.
C1_Witness ==
    /\ pc = "returned"
    /\ validation_report.overall_status = "FAILED"
    /\ DOMAIN validation_report.dataset_results # {}
    /\ \A n \in DOMAIN validation_report.dataset_results :
          validation_report.dataset_results[n].passed
    /\ ~validation_report.cross_table_results.passed

\* C7: for a collection in which a key is absent, maps to None or maps to an
\* empty table, run_comprehensive_validation raises nothing, and the report
\* it returns has no entry for that name in dataset_results or data_profiles.
C7_AbsentOrEmptySkipped ==
    ~IsNone(datasets) =>
        /\ pc # "raised"
        /\ pc = "returned" =>
            \A n \in {"companies", "stock_prices", "sec_filings",
                      "cybersecurity_incidents", "disclosure_analysis"} :
                (n \notin DOMAIN datasets \/ IsNone(datasets[n]) \/ empty(datasets[n]))
                    => /\ n \notin DOMAIN validation_report.dataset_results
                       /\ n \notin DOMAIN validation_report.data_profiles

\* A report returned for a collection with a key absent, a None, an empty
\* table and a table that has an entry.
C7_Witness ==
    /\ pc = "returned"
    /\ "sec_filings" \notin DOMAIN datasets
    /\ \E n \in DOMAIN datasets : IsNone(datasets[n])
    /\ \E n \in DOMAIN datasets : ~IsNone(datasets[n]) /\ empty(datasets[n])
    /\ DOMAIN validation_report.dataset_results # {}

\* C8: in a returned report data_profiles and dataset_results have the same
\* keys, the names of the datasets that are present and non-empty, whether
\* their validation passed or failed, and each profile's record_count is the
\* record_count of the dataset's result.
C8_ProfilesMatchResults ==
    pc = "returned" =>
        /\ DOMAIN validation_report.data_profiles = NonEmptyKeys(datasets)
        /\ DOMAIN validation_report.dataset_results = NonEmptyKeys(datasets)
        /\ \A n \in DOMAIN validation_report.dataset_results :
              validation_report.data_profiles[n].record_count
                 = validation_report.dataset_results[n].record_count

\* A report with a profile for a dataset that failed and for one that passed.
C8_Witness ==
    /\ pc = "returned"
    /\ \E n \in DOMAIN validation_report.data_profiles :
          ~validation_report.dataset_results[n].passed
    /\ \E n \in DOMAIN validation_report.data_profiles :
          /\ validation_report.dataset_results[n].passed
          /\ validation_report.data_profiles[n].record_count = MaxRows

\* The collection without the keys that hold None or an empty table.
WithoutEmpty(ds) == [k \in NonEmptyKeys(ds) |-> ds[k]]

\* The report after the loop body ran for the given keys of ds.
RECURSIVE AfterLoop(_, _, _)
AfterLoop(report, ds, keys) ==
    IF keys = {} THEN report
    ELSE LET name == CHOOSE k \in keys : TRUE
         IN AfterLoop(LoopBody(report, name, ds[name]), ds, keys \ {name})

\* The report run_comprehensive_validation returns for the collection ds.
ReportFor(ds) ==
    CrossTableUpdate(AfterLoop(NewReport, ds, DOMAIN ds),
                     validate_cross_table_constraints(ds))

\* C14: the report returned for a collection has the overall_status and the
\* cross_table_results of the report for the same collection with every
\* None or empty dataset removed.
C14_EmptySkippedEntirely ==
    pc = "returned" =>
        LET expected == ReportFor(WithoutEmpty(datasets))
        IN /\ validation_report.overall_status = expected.overall_status
           /\ validation_report.cross_table_results = expected.cross_table_results

\* ------------------------------------------------------------------ data_validation.py

\* What a function call did: it returned a value, or it raised (Raise).
Return(value) == [raised |-> FALSE, value |-> value]

\* series.isnull().sum()
NullCount(series) ==
    Cardinality({i \in 1..Len(series.vals) : IsNull(series.vals[i])})

\* (series < 0).sum(): a comparison with a null is False.
NegativeCount(series) ==
    Cardinality({i \in 1..Len(series.vals) :
        NotNull(series.vals[i]) /\ NumLt(series.vals[i][1], N(0))})

\* series.min() and series.max() of a column of dates: nulls are skipped,
\* and the result is null (NaT) when nothing is left.
SeriesMin(series) ==
    LET live == {series.vals[i][1] : i \in {i \in 1..Len(series.vals) :
                                              NotNull(series.vals[i])}}
    IN IF live = {} THEN <<>> ELSE <<CHOOSE m \in live : \A x \in live : m <= x>>
SeriesMax(series) ==
    LET live == {series.vals[i][1] : i \in {i \in 1..Len(series.vals) :
                                              NotNull(series.vals[i])}}
    IN IF live = {} THEN <<>> ELSE <<CHOOSE m \in live : \A x \in live : m >= x>>

\* series.duplicated().sum(): the rows whose value stands in an earlier row,
\* a null being equal to a null.
DuplicatedCount(series) ==
    Cardinality({i \in 1..Len(series.vals) :
        \E j \in 1..(i - 1) : series.vals[j] = series.vals[i]})

\* validate_stock_data counting the prices that are zero as negative.
validate_stock_data_nonpositive(df) ==
    IF SubscriptRaises(df, "closing_price") # "" THEN SubscriptError(df, "closing_price")
    ELSE IF SubscriptRaises(df, "trading_volume") # ""
    THEN SubscriptError(df, "trading_volume")
    ELSE IF SubscriptRaises(df, "date") # "" THEN SubscriptError(df, "date")
    ELSE Return([missing_prices |-> NullCount(df.cols["closing_price"]),
                 missing_volume |-> NullCount(df.cols["trading_volume"]),
                 negative_prices |->
                    LET price == df.cols["closing_price"].vals
                    IN Cardinality({i \in 1..Len(price) :
                          NotNull(price[i]) /\ NumLe(price[i][1], N(0))}),
                 date_range |-> <<SeriesMin(df.cols["date"]),
                                  SeriesMax(df.cols["date"])>>])

\* validate_stock_data: nothing catches the KeyError of a missing column.
validate_stock_data(df) ==
    IF SubscriptRaises(df, "closing_price") # "" THEN SubscriptError(df, "closing_price")
    ELSE IF SubscriptRaises(df, "trading_volume") # ""
    THEN SubscriptError(df, "trading_volume")
    ELSE IF SubscriptRaises(df, "date") # "" THEN SubscriptError(df, "date")
    ELSE Return([missing_prices |-> NullCount(df.cols["closing_price"]),
                 missing_volume |-> NullCount(df.cols["trading_volume"]),
                 negative_prices |-> NegativeCount(df.cols["closing_price"]),
                 date_range |-> <<SeriesMin(df.cols["date"]),
                                  SeriesMax(df.cols["date"])>>])

\* validate_company_data counting every row of a repeated ticker
\* (duplicated(keep=False)).
validate_company_data_keep_false(df) ==
    IF SubscriptRaises(df, "ticker") # "" THEN SubscriptError(df, "ticker")
    ELSE IF SubscriptRaises(df, "company_name") # ""
    THEN SubscriptError(df, "company_name")
    ELSE Return([duplicate_tickers |->
                    LET ticker == df.cols["ticker"].vals
                    IN Cardinality({i \in 1..Len(ticker) :
                          \E j \in 1..Len(ticker) : j # i /\ ticker[j] = ticker[i]}),
                 missing_names |-> NullCount(df.cols["company_name"])])

\* validate_company_data
validate_company_data(df) ==
    IF SubscriptRaises(df, "ticker") # "" THEN SubscriptError(df, "ticker")
    ELSE IF SubscriptRaises(df, "company_name") # ""
    THEN SubscriptError(df, "company_name")
    ELSE Return([duplicate_tickers |-> DuplicatedCount(df.cols["ticker"]),
                 missing_names |-> NullCount(df.cols["company_name"])])

\* The columns of the tables the tests give to the two functions.
StockColumns == {"closing_price", "trading_volume", "date"}
CompanyColumns == {"ticker", "company_name"}

\* The cells of the rows of those tables.
StockCells ==
    [closing_price |-> {<<>>, <<N(-1)>>, <<N(0)>>, <<N(100)>>},
     trading_volume |-> {<<>>, <<N(1000)>>},
     date |-> {<<1>>, <<2>>}]
CompanyCells ==
    [ticker |-> {<<>>, <<Rep("A", 4)>>, <<Rep("M", 4)>>, <<Rep("G", 4)>>},
     company_name |-> {<<>>, <<Rep("b", 5)>>}]

\* The stock tables of up to `rows` rows, and those of one row with one
\* column missing.
QualityStockTables(rows) ==
    LET types == [closing_price |-> "float", trading_volume |-> "int",
                  date |-> "Timestamp"]
        row == [closing_price : StockCells.closing_price,
                trading_volume : StockCells.trading_volume,
                date : StockCells.date]
    IN {DataFrame(types, rs, StockColumns) : rs \in SeqsUpTo(row, 0, rows)}
       \cup {DataFrame(types, <<r>>, StockColumns \ {c}) :
                r \in {x \in row : x.date = <<1>> /\ x.trading_volume # <<>>},
                c \in StockColumns}

\* The companies tables of up to `rows` rows, and those of one row with one
\* column missing.
QualityCompanyTables(rows) ==
    LET types == [ticker |-> "str", company_name |-> "str"]
        row == [ticker : CompanyCells.ticker, company_name : CompanyCells.company_name]
    IN {DataFrame(types, rs, CompanyColumns) : rs \in SeqsUpTo(row, 0, rows)}
       \cup {DataFrame(types, <<r>>, CompanyColumns \ {c}) :
                r \in row, c \in CompanyColumns}

InitQuality ==
    /\ ValidatorUnused
    /\ RetryUnused
    /\ PipelineUnused
    /\ dq_fn \in {"validate_stock_data", "validate_company_data"}
    /\ dq_df \in IF dq_fn = "validate_stock_data"
                 THEN QualityStockTables(MaxQualityRows)
                 ELSE QualityCompanyTables(MaxQualityRows)
    /\ dq_pc = "call"
    /\ dq_result = None

CallValidateStockData ==
    /\ dq_pc = "call"
    /\ dq_fn = "validate_stock_data"
    /\ dq_result' = validate_stock_data(dq_df)
    /\ dq_pc' = "done"
    /\ UNCHANGED <<dq_fn, dq_df>>
    /\ UNCHANGED <<validatorVars, retryVars, pipelineVars>>

CallValidateCompanyData ==
    /\ dq_pc = "call"
    /\ dq_fn = "validate_company_data"
    /\ dq_result' = validate_company_data(dq_df)
    /\ dq_pc' = "done"
    /\ UNCHANGED <<dq_fn, dq_df>>
    /\ UNCHANGED <<validatorVars, retryVars, pipelineVars>>

NextQuality == CallValidateStockData \/ CallValidateCompanyData

SpecQuality == InitQuality /\ [][NextQuality]_vars

\* The rows of df whose closing_price is present, and those whose
\* closing_price is null or at least 0.
PricedRows(df) ==
    {i \in 1..df.nrows : NotNull(df.cols["closing_price"].vals[i])}
NotNegativeRows(df) ==
    {i \in 1..df.nrows :
        LET cell == df.cols["closing_price"].vals[i]
        IN IsNull(cell) \/ NumLe(N(0), cell[1])}

\* C12: for a stock table (one that holds the columns the function reads),
\* validate_stock_data returns missing_prices = the number of rows whose
\* closing_price is null and negative_prices = the number of rows whose
\* closing_price is strictly below 0, a null or zero price not counting as
\* negative; both are 0 for a table without null and negative prices.
C12_StockCounts ==
    (dq_pc = "done" /\ dq_fn = "validate_stock_data"
        /\ StockColumns \subseteq DOMAIN dq_df.cols)
        => /\ ~dq_result.raised
           /\ dq_result.value.missing_prices =
                dq_df.nrows - Cardinality(PricedRows(dq_df))
           /\ dq_result.value.negative_prices =
                dq_df.nrows - Cardinality(NotNegativeRows(dq_df))
           /\ (PricedRows(dq_df) \cap NotNegativeRows(dq_df) = 1..dq_df.nrows
                 => /\ dq_result.value.missing_prices = 0
                    /\ dq_result.value.negative_prices = 0)

\* A table with a null, a zero and a negative price was validated.
C12_Witness ==
    /\ dq_pc = "done"
    /\ dq_fn = "validate_stock_data"
    /\ dq_df.nrows = 3
    /\ StockColumns \subseteq DOMAIN dq_df.cols
    /\ {dq_df.cols["closing_price"].vals[i] : i \in 1..3} = {<<>>, <<N(0)>>, <<N(-1)>>}
    /\ ~dq_result.raised
    /\ dq_result.value.missing_prices = 1
    /\ dq_result.value.negative_prices = 1

\* C13: for a companies table (one that holds the columns the function
\* reads), validate_company_data returns duplicate_tickers = the row count
\* minus the number of distinct tickers, which is 0 exactly when the
\* tickers are pairwise distinct; a null ticker is a ticker like any other.
C13_DuplicateTickers ==
    (dq_pc = "done" /\ dq_fn = "validate_company_data"
        /\ CompanyColumns \subseteq DOMAIN dq_df.cols)
        => LET ticker == dq_df.cols["ticker"].vals
               distinct == {ticker[i] : i \in 1..dq_df.nrows}
               pairwise == \A i, j \in 1..dq_df.nrows : i # j => ticker[i] # ticker[j]
           IN /\ ~dq_result.raised
              /\ dq_result.value.duplicate_tickers = dq_df.nrows - Cardinality(distinct)
              /\ (dq_result.value.duplicate_tickers = 0) <=> pairwise

\* The table of the test, the first ticker repeated in the third row, was
\* validated.
C13_Witness ==
    /\ dq_pc = "done"
    /\ dq_fn = "validate_company_data"
    /\ dq_df.nrows = 3
    /\ CompanyColumns \subseteq DOMAIN dq_df.cols
    /\ dq_df.cols["ticker"].vals = <<<<Rep("A", 4)>>, <<Rep("M", 4)>>, <<Rep("A", 4)>>>>
    /\ ~dq_result.raised
    /\ dq_result.value.duplicate_tickers = 1

\* ------------------------------------------------------------------ error_handling.py

\* What an invocation of the wrapped function can do: return, or raise an
\* exception of one of these classes (subclasses of Exception).
FuncRaises == {"ValueError", "ConnectionError"}
FuncOutcomes == {"return"} \cup FuncRaises

\* The value returned, or the exception raised, by the k-th invocation of
\* the wrapped function.
ResultOf(k) == [returned |-> TRUE, invocation |-> k]
ExceptionOf(type, k) == [exception |-> type, raised_by |-> "func", invocation |-> k]

\* Line 64 evaluates the name `time`; the module imports logging,
\* traceback, functools, datetime, smtplib and MIMEText (lines 5-10) and
\* nothing binds `time`.
NameError == [exception |-> "NameError", raised_by |-> "wrapper", invocation |-> 0]

\* The wrapped functions of a wrapper with max_retries = n: what each of
\* the n + 1 invocations the loop allows would do.
WrappedFunctions(n) == [1..(n + 1) -> FuncOutcomes]

InitRetry ==
    /\ ValidatorUnused
    /\ QualityUnused
    /\ PipelineUnused
    /\ rt_max_retries \in 0..MaxRetries
    /\ rt_delay \in {0, 1, 2}
    /\ rt_func \in WrappedFunctions(rt_max_retries)
    /\ rt_pc = "call"
    /\ rt_attempt = 0
    /\ rt_calls = 0
    /\ rt_last_exception = None
    /\ rt_outcome = None

\* Lines 55-57: the wrapper is called and enters its loop.
CallWrapper ==
    /\ rt_pc = "call"
    /\ rt_last_exception' = None
    /\ rt_attempt' = 0
    /\ rt_pc' = "loop"
    /\ UNCHANGED <<rt_max_retries, rt_delay, rt_func, rt_calls, rt_outcome>>
    /\ UNCHANGED <<validatorVars, qualityVars, pipelineVars>>

\* Lines 57-61: one pass of the loop invokes func; its value is returned,
\* or its exception is caught and kept.
Attempt ==
    /\ rt_pc = "loop"
    /\ rt_attempt <= rt_max_retries
    /\ rt_calls' = rt_calls + 1
    /\ LET does == rt_func[rt_calls + 1]
       IN IF does = "return"
          THEN /\ rt_outcome' = ResultOf(rt_calls + 1)
               /\ rt_pc' = "returned"
               /\ UNCHANGED rt_last_exception
          ELSE /\ rt_last_exception' = ExceptionOf(does, rt_calls + 1)
               /\ rt_pc' = "except"
               /\ UNCHANGED rt_outcome
    /\ UNCHANGED <<rt_max_retries, rt_delay, rt_func, rt_attempt>>
    /\ UNCHANGED <<validatorVars, qualityVars, pipelineVars>>

\* Lines 62-66, the rest of the except block: before the last attempt the
\* failure is logged and time.sleep is evaluated, which raises NameError
\* out of the handler and out of the wrapper; after the last attempt the
\* failure is logged and the loop goes on.
HandleException ==
    /\ rt_pc = "except"
    /\ IF rt_attempt < rt_max_retries
       THEN /\ rt_outcome' = NameError
            /\ rt_pc' = "raised"
            /\ UNCHANGED rt_attempt
       ELSE /\ rt_attempt' = rt_attempt + 1
            /\ rt_pc' = "loop"
            /\ UNCHANGED rt_outcome
    /\ UNCHANGED <<rt_max_retries, rt_delay, rt_func, rt_calls, rt_last_exception>>
    /\ UNCHANGED <<validatorVars, qualityVars, pipelineVars>>

\* Line 68: the loop is exhausted and last_exception is raised.
RaiseLastException ==
    /\ rt_pc = "loop"
    /\ rt_attempt > rt_max_retries
    /\ rt_outcome' = rt_last_exception
    /\ rt_pc' = "raised"
    /\ UNCHANGED <<rt_max_retries, rt_delay, rt_func, rt_attempt, rt_calls,
                   rt_last_exception>>
    /\ UNCHANGED <<validatorVars, qualityVars, pipelineVars>>

NextRetry == CallWrapper \/ Attempt \/ HandleException \/ RaiseLastException

SpecRetry == InitRetry /\ [][NextRetry]_vars

\* The invocations of the wrapped function that would return.
Succeeding(func) == {k \in DOMAIN func : func[k] = "return"}

\* C15: with max_retries = n >= 1, the wrapper that returned has returned
\* the result of the first invocation that succeeds, having invoked the
\* function that many times; the wrapper that raised has invoked the
\* function n + 1 times, every invocation failed, and the exception is the
\* one the last invocation raised.
C15_RetriesUntilExhausted ==
    rt_max_retries >= 1 =>
        /\ rt_pc = "returned" =>
              /\ Succeeding(rt_func) # {}
              /\ \A k \in Succeeding(rt_func) : rt_calls <= k
              /\ rt_outcome = ResultOf(rt_calls)
        /\ rt_pc = "raised" =>
              /\ rt_calls = rt_max_retries + 1
              /\ Succeeding(rt_func) = {}
              /\ rt_outcome = ExceptionOf(rt_func[rt_calls], rt_calls)

\* ------------------------------------------------------------------ pipeline_orchestration.py

\* A Python bool; a variable that was not assigned holds "-".
Bool(b) == IF b THEN "True" ELSE "False"

\* `not x` as `x is None`.
Falsy_is_none(x) == IsNone(x)

\* `not x` for a dict or None.
Falsy(x) == IsNone(x) \/ DOMAIN x = {}

\* data_extraction.connect_to_wrds: the connection, or None when
\* wrds.Connection() raises.
connect_to_wrds(env) ==
    IF env.wrds = "up" THEN [db |-> TRUE, closed |-> FALSE] ELSE None

\* data_extraction.extract_stock_data: what db.raw_sql returns, or None
\* when it raises.
extract_stock_data(db, env) ==
    IF "raised" \in DOMAIN env.raw_sql THEN None ELSE env.raw_sql

\* data_extraction.extract_sec_filings: its body is `pass`.
extract_sec_filings == None

\* ETLPipeline.extract_data
extract_data(env) ==
    LET db == connect_to_wrds(env)
    IN IF IsNone(db) THEN None
       ELSE [stock_data |-> extract_stock_data(db, env),
             sec_filings |-> extract_sec_filings,
             incidents |-> NoColumns]

\* Row i of df stands before row j in df.sort_values(['company_id', 'date']).
SortsBefore(df, i, j) ==
    LET ci == df.cols["company_id"].vals[i][1]
        cj == df.cols["company_id"].vals[j][1]
        di == df.cols["date"].vals[i][1]
        dj == df.cols["date"].vals[j][1]
    IN NumLt(ci, cj) \/ (ci = cj /\ (di < dj \/ (di = dj /\ i < j)))

\* data_transformation.calculate_returns for a table that holds at most one
\* row per company_id and no null company_id or date: the rows are sorted
\* and pct_change, having no earlier row of the same company, gives a null
\* in every row.  A missing column is a KeyError, and None is returned.
calculate_returns(stock_data) ==
    IF ~({"company_id", "date", "closing_price"} \subseteq DOMAIN stock_data.cols)
    THEN None
    ELSE LET n == stock_data.nrows
             order == CHOOSE p \in [1..n -> 1..n] :
                         \A a, b \in 1..n : a < b => SortsBefore(stock_data, p[a], p[b])
             sorted == [c \in DOMAIN stock_data.cols |->
                          Series(IF c = "date" THEN "Timestamp"
                                 ELSE IF c = "closing_price" THEN "float" ELSE "int",
                                 [k \in 1..n |-> stock_data.cols[c].vals[order[k]]])]
         IN [nrows |-> n,
             cols |-> ("returns" :> Series("float", [k \in 1..n |-> <<>>])) @@ sorted]

\* ETLPipeline.transform_data.  raw_data['sec_filings'] is what
\* extract_sec_filings returned, None, so lines 128-145 add no key.
transform_data(raw_data) ==
    IF "stock_data" \in DOMAIN raw_data /\ ~IsNone(raw_data.stock_data)
    THEN "stock_data" :> calculate_returns(raw_data.stock_data)
    ELSE EmptyDict

\* ETLPipeline.validate_data: validation_passed and self.validation_results
\* after the call.  An exception of validate_stock_data is caught, line 180.
validate_data(transformed_data, validation_results) ==
    IF "stock_data" \notin DOMAIN transformed_data
    THEN [passed |-> Bool(TRUE), results |-> validation_results]
    ELSE LET dataset == transformed_data["stock_data"]
         IN IF IsNone(dataset) \/ empty(dataset)
            THEN [passed |-> Bool(TRUE), results |-> validation_results]
            ELSE LET r == validate_stock_data(dataset)
                 IN IF r.raised
                    THEN [passed |-> Bool(FALSE), results |-> validation_results]
                    ELSE [passed |-> Bool(~(20 * r.value.missing_prices > len(dataset))),
                          results |-> ("stock_data" :> r.value) @@ validation_results]

\* ETLPipeline.load_data: whether it returned True, and the datasets it saved.
load_data(transformed_data, env) ==
    LET saved == {n \in DOMAIN transformed_data :
                     ~IsNone(transformed_data[n]) /\ ~empty(transformed_data[n])}
    IN IF saved # {} /\ env.to_csv = "OSError"
       THEN [success |-> Bool(FALSE), files |-> {}]
       ELSE [success |-> Bool(TRUE), files |-> saved]

\* The stock tables db.raw_sql can return: the columns the query of
\* data_extraction.py selects, and the columns the rest of the pipeline
\* reads, with up to `rows` rows of distinct companies, or without one of
\* the columns.
PipelineStockTables(rows) ==
    LET crsp == [date |-> "Timestamp", permno |-> "int", ret |-> "float",
                 vol |-> "int", prc |-> "float"]
        types == SchemaTypes(stock_prices_schema)
        named == Fields(stock_prices_schema) \ {"returns"}
        row(id, price) == [BaseRow("stock_prices") EXCEPT !.company_id = <<N(id)>>,
                                                          !.closing_price = price]
        ids == {s \in SeqsUpTo(1..rows, 0, rows) :
                   \A a, b \in 1..Len(s) : a # b => s[a] # s[b]}
    IN {DataFrame(crsp, <<[date |-> <<1>>, permno |-> <<N(1)>>, ret |-> <<N(0)>>,
                           vol |-> <<N(1000)>>, prc |-> <<N(100)>>]>>, DOMAIN crsp)}
       \cup {DataFrame(types, [k \in 1..Len(s) |-> row(s[k], prices[k])], named) :
                <<s, prices>> \in {sp \in ids \X SeqsUpTo({<<>>, <<N(100)>>}, 0, rows) :
                                      Len(sp[1]) = Len(sp[2])}}
       \cup {DataFrame(types, <<row(1, <<N(100)>>)>>, named \ {c}) :
                c \in {"date", "trading_volume"}}

\* What the world outside the pipeline does: whether WRDS accepts the
\* connection, what the query gives, whether the files can be written and
\* whether the connection closes.
Environments(rows) ==
    [wrds : {"up", "down"},
     raw_sql : PipelineStockTables(rows) \cup {Raise("DatabaseError", "raw_sql")},
     to_csv : {"ok", "OSError"},
     close : {"ok", "raises"}]

InitPipeline ==
    /\ ValidatorUnused
    /\ QualityUnused
    /\ RetryUnused
    /\ pl_env \in Environments(MaxPipelineRows)
    /\ pl_pc = "extract"
    /\ pl_trace = <<>>
    /\ pl_wrds_connection = None
    /\ pl_raw_data = None
    /\ pl_transformed_data = None
    /\ pl_validation_passed = "-"
    /\ pl_validation_results = EmptyDict
    /\ pl_load_success = "-"
    /\ pl_files = {}
    /\ pl_returned = "-"

\* Lines 43-49: extract_data is called; without data the pipeline stops.
ExtractStep ==
    /\ pl_pc = "extract"
    /\ pl_trace' = Append(pl_trace, "extract")
    /\ pl_wrds_connection' = connect_to_wrds(pl_env)
    /\ pl_raw_data' = extract_data(pl_env)
    /\ IF Falsy(pl_raw_data')
       THEN pl_returned' = "False" /\ pl_pc' = "finally"
       ELSE pl_pc' = "transform" /\ UNCHANGED pl_returned
    /\ UNCHANGED <<pl_env, pl_transformed_data, pl_validation_passed,
                   pl_validation_results, pl_load_success, pl_files>>
    /\ UNCHANGED <<validatorVars, qualityVars, retryVars>>

\* Lines 51-57: transform_data is called; without a result the pipeline stops.
TransformStep ==
    /\ pl_pc = "transform"
    /\ pl_trace' = Append(pl_trace, "transform")
    /\ pl_transformed_data' = transform_data(pl_raw_data)
    /\ IF Falsy(pl_transformed_data')
       THEN pl_returned' = "False" /\ pl_pc' = "finally"
       ELSE pl_pc' = "validate" /\ UNCHANGED pl_returned
    /\ UNCHANGED <<pl_env, pl_wrds_connection, pl_raw_data, pl_validation_passed,
                   pl_validation_results, pl_load_success, pl_files>>
    /\ UNCHANGED <<validatorVars, qualityVars, retryVars>>

\* Lines 59-64: validate_data is called; a failure is logged as a warning.
ValidateStep ==
    /\ pl_pc = "validate"
    /\ pl_trace' = Append(pl_trace, "validate")
    /\ LET r == validate_data(pl_transformed_data, pl_validation_results)
       IN /\ pl_validation_passed' = r.passed
          /\ pl_validation_results' = r.results
    /\ pl_pc' = "load"
    /\ UNCHANGED <<pl_env, pl_wrds_connection, pl_raw_data, pl_transformed_data,
                   pl_load_success, pl_files, pl_returned>>
    /\ UNCHANGED <<validatorVars, qualityVars, retryVars>>

\* Lines 66-75: load_data is called and its success is the return value.
LoadStep ==
    /\ pl_pc = "load"
    /\ pl_trace' = Append(pl_trace, "load")
    /\ LET r == load_data(pl_transformed_data, pl_env)
       IN /\ pl_load_success' = r.success
          /\ pl_files' = r.files
          /\ pl_returned' = r.success
    /\ pl_pc' = "finally"
    /\ UNCHANGED <<pl_env, pl_wrds_connection, pl_raw_data, pl_transformed_data,
                   pl_validation_passed, pl_validation_results>>
    /\ UNCHANGED <<validatorVars, qualityVars, retryVars>>

\* Lines 80-81 and cleanup, 203-210: the connection, if there is one, is
\* closed, an exception of close() being caught; then the method returns.
Cleanup ==
    /\ pl_pc = "finally"
    /\ pl_wrds_connection' =
          IF ~IsNone(pl_wrds_connection) /\ pl_env.close = "ok"
          THEN [pl_wrds_connection EXCEPT !.closed = TRUE]
          ELSE pl_wrds_connection
    /\ pl_pc' = "returned"
    /\ UNCHANGED <<pl_env, pl_trace, pl_raw_data, pl_transformed_data,
                   pl_validation_passed, pl_validation_results, pl_load_success,
                   pl_files, pl_returned>>
    /\ UNCHANGED <<validatorVars, qualityVars, retryVars>>

NextPipeline == ExtractStep \/ TransformStep \/ ValidateStep \/ LoadStep \/ Cleanup

SpecPipeline == InitPipeline /\ [][NextPipeline]_vars

\* The steps in the order of the method, and the sequences that begin it.
StepOrder == <<"extract", "transform", "validate", "load">>
Invoked(step) == \E k \in 1..Len(pl_trace) : pl_trace[k] = step

\* A step returned a result that is not None and not an empty dict.
NonEmptyResult(x) == ~IsNone(x) /\ DOMAIN x # {}

\* C16: run_full_pipeline invokes its steps in the order extract, transform,
\* validate, load and raises nothing; when it has returned, load_data was
\* invoked if and only if extract_data and transform_data each returned a
\* non-empty result, whatever validate_data returned, and the value
\* returned is True if and only if load_data was invoked and returned True.
C16_PipelineOrder ==
    /\ pl_trace = SubSeq(StepOrder, 1, Len(pl_trace))
    /\ pl_pc \in {"extract", "transform", "validate", "load", "finally", "returned"}
    /\ pl_pc = "returned" =>
          /\ Invoked("load") <=>
                (NonEmptyResult(pl_raw_data) /\ NonEmptyResult(pl_transformed_data))
          /\ (pl_returned = "True") <=> (Invoked("load") /\ pl_load_success = "True")
          /\ pl_returned \in {"True", "False"}

\* The pipeline returned True after validate_data returned False: more than
\* 5% of the prices were missing, and the table was loaded.
C16_Witness ==
    /\ pl_pc = "returned"
    /\ pl_trace = StepOrder
    /\ pl_validation_passed = "False"
    /\ "stock_data" \in DOMAIN pl_validation_results
    /\ pl_files = {"stock_data"}
    /\ pl_returned = "True"

====
